---- MODULE Spec2Model ----
(***************************************************************************)
(* A model of the control-animation repository:                            *)
(*   src/custom_pipeline.py  FlaxStableDiffusionControlNetPipeline         *)
(*   src/utils/utils.py      add_watermark, prepare_video                  *)
(*   src/app.py              the application shell's launch policy         *)
(* One operation runs at a time (a call runs to completion before the next *)
(* one starts); the record of each operation keeps the call's arguments,   *)
(* its local variables and its position in the code.  SpecReplay runs      *)
(* generate calls and their repetitions, SpecShared the artifact-writing   *)
(* functions of utils.py as concurrent requests.                           *)
(***************************************************************************)
EXTENDS Integers, Sequences, FiniteSets, TLC

VARIABLES pipe, gen, vid, wm, app, prep, hist, req, fs

vars == <<pipe, gen, vid, wm, app, prep, hist, req, fs>>

(***************************************************************************)
(* Bounds of the model and the sets the arguments are drawn from.          *)
(***************************************************************************)
MaxDevices == 2
MaxSteps == 2
MaxSeed == 1

\* image heights and widths offered to generate (300 is not divisible by 64)
ImageDims == {64, 300, 512}
\* per-device batch sizes (prompt_ids.shape[0] inside _generate)
BatchSizes == {1, 2}
\* guidance_scale values
GuidanceScales == {0, 1, 3}
\* token-id arrays are abstracted to one integer each
PromptIds == {1}
NegPromptIds == {2}

\* an optional argument (None or a value) is a sequence of length <= 1
Opt(S) == {<<>>} \cup {<<x>> : x \in S}

RECURSIVE Pow2(_)
Pow2(n) == IF n <= 0 THEN 1 ELSE 2 * Pow2(n - 1)

RECURSIVE Prod(_)
\* the number of elements of an array of shape s
Prod(s) == IF s = <<>> THEN 1 ELSE Head(s) * Prod(Tail(s))

(***************************************************************************)
(* FlaxStableDiffusionControlNetPipeline: configuration and the external   *)
(* models, which are deterministic functions of their inputs.              *)
(***************************************************************************)
\* len(self.vae.config.block_out_channels) of the Stable Diffusion VAE
VaeBlockOutChannels == 4
\* self.unet.config.in_channels
UnetInChannels == 4

vae_scale_factor == Pow2(VaeBlockOutChannels - 1)

TextEncoder(ids) == 10 + ids
\* the token ids of the empty prompt, self.tokenizer([""] * batch_size, ...)
TokenizerEmpty == 0
RandomNormal(seed, shape) == 1 + seed
ControlNet(latents_input, ctx, t, cond, scale) == scale * cond
Unet(latents_input, ctx, t, res) == (latents_input + ctx + t + res) % 5
SchedulerTimesteps(n) == [i \in 1..n |-> n - i]
ScaleModelInput(latents_input, t) == latents_input
SchedulerStep(latents, noise_pred, t) == latents - noise_pred
InitNoiseSigma == 2
\* pixel content of decoded image i, in halves: 0 is 0.0, 1 is 0.5, 2 is 1.0
VaeDecode(latents, i) == (latents + i) % 3
\* (images * 255).round().astype("uint8") of a pixel content given in halves
CastUint8(c) == (255 * c + 1) \div 2

\* line 232: the condition under which _generate rejects the image
DimsInvalidAnd(height, width) == height % 64 /= 0 /\ width % 64 /= 0
DimsInvalid(height, width) == height % 64 /= 0 \/ width % 64 /= 0

\* lines 255-260
LatentsShapeNoMinus(batch_size, height, width) ==
    <<batch_size, UnetInChannels,
      height \div Pow2(VaeBlockOutChannels), width \div Pow2(VaeBlockOutChannels)>>
LatentsShape(batch_size, height, width) ==
    <<batch_size, UnetInChannels,
      height \div vae_scale_factor, width \div vae_scale_factor>>

\* line 251: context = jnp.concatenate([negative_prompt_embeds, prompt_embeds])
ContextSwapped(negative_prompt_embeds, prompt_embeds) ==
    <<prompt_embeds, negative_prompt_embeds>>
Context(negative_prompt_embeds, prompt_embeds) ==
    <<negative_prompt_embeds, prompt_embeds>>

\* lines 300-301: split the doubled prediction and perform guidance
Guidance(noise_pred, guidance_scale) ==
    LET noise_pred_uncond == noise_pred[1]
        noise_prediction_text == noise_pred[2]
    IN  noise_pred_uncond + guidance_scale * (noise_prediction_text - noise_pred_uncond)

(***************************************************************************)
(* The state of a generate call (__call__ and _generate).                  *)
(***************************************************************************)
NoLast == [latents |-> 0, latents_input |-> 0, t |-> 0, res |-> <<>>, noise_pred |-> 0]

GenIdle ==
    [pc |-> "idle", err |-> "", height |-> 0, width |-> 0, jit |-> FALSE,
     num_devices |-> 0, batch_size |-> 0, prompt_ids |-> 0, neg_prompt_ids |-> <<>>,
     latents_arg |-> <<>>, num_inference_steps |-> 0, guidance_scale |-> 0,
     prng_seed |-> 0, computed |-> {}, context |-> <<>>, image |-> <<>>,
     latents_shape |-> <<>>, latents0 |-> 0, latents |-> 0, timesteps |-> <<>>,
     step |-> 0, last |-> NoLast, decoded |-> <<>>,
     images |-> [shape |-> <<>>, data |-> <<>>],
     has_nsfw_concept |-> <<>>]


\* latents a caller may supply: of the shape (batch, 4, height / 8, width / 8)
\* that fits a pipeline of scale factor 8, or one component off
SuppliedLatents(batch_size, height, width) ==
    LET e == <<batch_size, 4, height \div 8, width \div 8>>
    IN  {[shape |-> e, val |-> 7]}
          \cup {[shape |-> [e EXCEPT ![k] = e[k] + 1], val |-> 7] : k \in 1..4}

(***************************************************************************)
(* The state of the other operations, and the initial state.               *)
(***************************************************************************)
VidIdle ==
    [pc |-> "idle", err |-> "", frames |-> 0, fps_n |-> 0, frame_h |-> 0, frame_w |-> 0,
     resolution |-> 0, start_t |-> <<0, 1>>, end_t_arg |-> <<0, 1>>, output_fps_arg |-> 0,
     end_t |-> <<0, 1>>, output_fps |-> 0, sample_idx |-> <<>>, decoded |-> FALSE,
     start_f_ind |-> 0, end_f_ind |-> 0, num_f |-> 0,
     h |-> 0, w |-> 0, resized |-> FALSE, returned_fps |-> <<>>]

WmIdle ==
    [pc |-> "idle", err |-> "", H |-> 0, W |-> 0, w_0 |-> 0, h_0 |-> 0, rel_den |-> 0,
     boundary |-> 0, wmsize |-> 0, w |-> 0, h |-> 0, loc_w |-> 0, loc_h |-> 0]

AppIdle ==
    [pc |-> "idle", environ |-> <<>>, public_access |-> FALSE, on_huggingspace |-> <<>>,
     banner |-> FALSE, tabs |-> <<>>, queue |-> <<>>, launch |-> <<>>, printed |-> FALSE]

PrepIdle ==
    [pc |-> "idle", err |-> "", fn |-> "", arg |-> [kind |-> "", one |-> 0, list |-> <<>>],
     computed |-> {}, result |-> <<>>]

\* no operation is in flight
AllIdle ==
    /\ gen.pc = "idle"
    /\ vid.pc = "idle"
    /\ wm.pc = "idle"
    /\ app.pc = "idle"
    /\ prep.pc = "idle"

\* what is remembered of earlier generate calls, for comparing a repeated call
\* with the call it repeats: the pipeline object as it was when the call in
\* flight started, and the arguments and outcome of the call that finished last
HistIdle ==
    [pipe0 |-> <<>>, prev |-> <<>>, replay |-> FALSE]

\* the artifact requests of utils.py (create_video, create_gif,
\* post_process_gif) and the paths they write
Requests == {1, 2}

Kinds == {"video", "gif", "post"}

ExplicitPaths == {"out/own.mp4"}

Paths == {"temporal/movie.mp4", "temporal/canny_db.gif", "/tmp/ddxk.gif"} \cup ExplicitPaths

\* a request's position, its arguments (its frames are named after the
\* request), and its locals path / output_file and outputs
ReqIdle ==
    [pc |-> "idle", kind |-> "", frames |-> 0, path_arg |-> <<>>, path |-> "",
     outputs |-> <<>>, returned |-> <<>>]

\* the pipeline object holds the optional safety checker; the scheduler object
\* keeps no state of its own (its state is the value set_timesteps returns);
\* DEBUG is the module's switch between the two forms of the denoising loop
Init ==
    /\ pipe \in [safety_checker : BOOLEAN, DEBUG : BOOLEAN, scheduler_state : {<<>>}]
    /\ gen = GenIdle
    /\ vid = VidIdle
    /\ wm = WmIdle
    /\ app = AppIdle
    /\ prep = PrepIdle
    /\ hist = HistIdle
    /\ req = [r \in Requests |-> ReqIdle]
    /\ fs = [p \in Paths |-> <<>>]

\* __call__, lines 384-400: the arguments are bound
G_CallArgs ==
    /\ AllIdle
    /\ \E height \in ImageDims, width \in ImageDims, jit \in BOOLEAN,
          nd \in 1..MaxDevices, bs \in BatchSizes, p \in PromptIds,
          neg \in Opt(NegPromptIds), n \in 0..MaxSteps, gs \in GuidanceScales,
          seed \in 0..MaxSeed :
         /\ jit \/ nd = 1
         /\ \E lat \in Opt(SuppliedLatents(bs, height, width)) :
              /\ (lat /= <<>>) => seed = 0
              /\ gen' = [GenIdle EXCEPT
                    !.pc = "called", !.height = height, !.width = width,
                    !.jit = jit, !.num_devices = nd, !.batch_size = bs,
                    !.prompt_ids = p, !.neg_prompt_ids = neg, !.latents_arg = lat,
                    !.num_inference_steps = n, !.guidance_scale = gs,
                    !.prng_seed = seed]

G_Call ==
    /\ G_CallArgs
    /\ UNCHANGED <<hist, req, fs, pipe, vid, wm, app, prep>>

\* _generate, lines 231-233
G_Validate ==
    /\ gen.pc = "called"
    /\ IF DimsInvalid(gen.height, gen.width)
       THEN gen' = [gen EXCEPT !.pc = "error", !.err = "InvalidInput"]
       ELSE gen' = [gen EXCEPT !.pc = "validated"]
    /\ UNCHANGED <<hist, req, fs, pipe, vid, wm, app, prep>>

\* _generate, lines 236-251
G_EncodeText ==
    /\ gen.pc = "validated"
    /\ LET prompt_embeds == TextEncoder(gen.prompt_ids)
           uncond_input == IF gen.neg_prompt_ids = <<>> THEN TokenizerEmpty
                           ELSE gen.neg_prompt_ids[1]
           negative_prompt_embeds == TextEncoder(uncond_input)
       IN  gen' = [gen EXCEPT
               !.pc = "text_encoded",
               !.context = Context(negative_prompt_embeds, prompt_embeds),
               !.computed = @ \cup {"text_encoder"}
                              \cup (IF gen.neg_prompt_ids = <<>> THEN {"tokenizer"} ELSE {})]
    /\ UNCHANGED <<hist, req, fs, pipe, vid, wm, app, prep>>

\* _generate, line 253: image = jnp.concatenate([image] * 2)
G_PrepareImage ==
    /\ gen.pc = "text_encoded"
    /\ gen' = [gen EXCEPT !.pc = "image_prepared", !.image = <<1, 1>>]
    /\ UNCHANGED <<hist, req, fs, pipe, vid, wm, app, prep>>

\* _generate, lines 255-265
G_InitLatents ==
    /\ gen.pc = "image_prepared"
    /\ LET latents_shape == LatentsShape(gen.batch_size, gen.height, gen.width)
       IN  IF gen.latents_arg = <<>>
           THEN gen' = [gen EXCEPT
                   !.pc = "latents_initialized", !.latents_shape = latents_shape,
                   !.latents0 = RandomNormal(gen.prng_seed, latents_shape),
                   !.latents = RandomNormal(gen.prng_seed, latents_shape),
                   !.computed = @ \cup {"random_normal"}]
           ELSE IF gen.latents_arg[1].shape /= latents_shape
           THEN gen' = [gen EXCEPT !.pc = "error", !.err = "ShapeMismatch",
                                   !.latents_shape = latents_shape]
           ELSE gen' = [gen EXCEPT
                   !.pc = "latents_initialized", !.latents_shape = latents_shape,
                   !.latents0 = gen.latents_arg[1].val,
                   !.latents = gen.latents_arg[1].val]
    /\ UNCHANGED <<hist, req, fs, pipe, vid, wm, app, prep>>

\* a set_timesteps that keeps its state on the scheduler object
G_SetTimestepsOnPipe ==
    /\ gen.pc = "latents_initialized"
    /\ gen' = [gen EXCEPT
           !.pc = "denoising",
           !.timesteps = SchedulerTimesteps(gen.num_inference_steps),
           !.latents = gen.latents * InitNoiseSigma,
           !.step = 0,
           !.computed = @ \cup {"set_timesteps"}]
    /\ pipe' = [pipe EXCEPT
           !.scheduler_state = <<SchedulerTimesteps(gen.num_inference_steps)>>]
    /\ UNCHANGED <<hist, req, fs, vid, wm, app, prep>>

\* _generate, lines 307-312: the scheduler state is a local value
G_SetTimesteps ==
    /\ gen.pc = "latents_initialized"
    /\ gen' = [gen EXCEPT
           !.pc = "denoising",
           !.timesteps = SchedulerTimesteps(gen.num_inference_steps),
           !.latents = gen.latents * InitNoiseSigma,
           !.step = 0,
           !.computed = @ \cup {"set_timesteps"}]
    /\ UNCHANGED <<hist, req, fs, pipe, vid, wm, app, prep>>

\* loop_body, lines 267-305: one denoising step at index step (0-based) on
\* the carried latents; the scheduler state it reads is the timestep table
LoopBody(step, latents, timesteps, context, image, guidance_scale) ==
    LET t == timesteps[step + 1]
        latents_input == ScaleModelInput(latents, t)
        res == [k \in 1..2 |->
                  ControlNet(latents_input, context[k], t, image[k], 1)]
        noise_pred2 == [k \in 1..2 |->
                  Unet(latents_input, context[k], t, res[k])]
        noise_pred == Guidance(noise_pred2, guidance_scale)
    IN  [latents |-> SchedulerStep(latents, noise_pred, t),
         last |-> [latents |-> latents, latents_input |-> latents_input,
                   t |-> t, res |-> res, noise_pred |-> noise_pred]]

\* jax.lax.fori_loop(lower, upper, loop_body, init), line 319: the value after
\* the body has run at lower, lower + 1, ..., upper - 1, and init when
\* upper <= lower
RECURSIVE ForiLoopFrom(_, _, _, _, _, _, _)
ForiLoopFrom(lower, upper, val, timesteps, context, image, guidance_scale) ==
    IF lower >= upper THEN val
    ELSE ForiLoopFrom(lower + 1, upper,
             LoopBody(lower, val.latents, timesteps, context, image, guidance_scale),
             timesteps, context, image, guidance_scale)

ForiLoopSkipFirst(lower, upper, val, timesteps, context, image, guidance_scale) ==
    ForiLoopFrom(lower + 1, upper, val, timesteps, context, image, guidance_scale)

ForiLoop(lower, upper, val, timesteps, context, image, guidance_scale) ==
    ForiLoopFrom(lower, upper, val, timesteps, context, image, guidance_scale)

\* lines 314-316 (DEBUG = True): one iteration of the python for loop
G_Step ==
    /\ gen.pc = "denoising"
    /\ pipe.DEBUG
    /\ gen.step < gen.num_inference_steps
    /\ LET r == LoopBody(gen.step, gen.latents, gen.timesteps, gen.context,
                         gen.image, gen.guidance_scale)
       IN  gen' = [gen EXCEPT
               !.latents = r.latents,
               !.step = @ + 1,
               !.last = r.last,
               !.computed = @ \cup {"controlnet", "unet", "scheduler_step"}]
    /\ UNCHANGED <<hist, req, fs, pipe, vid, wm, app, prep>>

\* lines 317-319 (DEBUG = False): the whole loop as one fused construct; with
\* no steps to run the construct returns its initial value and nothing changes
G_FusedLoop ==
    /\ gen.pc = "denoising"
    /\ ~pipe.DEBUG
    /\ gen.step = 0
    /\ gen.num_inference_steps > 0
    /\ LET r == ForiLoop(0, gen.num_inference_steps,
                         [latents |-> gen.latents, last |-> gen.last],
                         gen.timesteps, gen.context, gen.image, gen.guidance_scale)
       IN  gen' = [gen EXCEPT
               !.latents = r.latents,
               !.step = gen.num_inference_steps,
               !.last = r.last,
               !.computed = @ \cup {"controlnet", "unet", "scheduler_step"}]
    /\ UNCHANGED <<hist, req, fs, pipe, vid, wm, app, prep>>

\* _generate, lines 321-326: decode once the loop has run all its steps
G_Decode ==
    /\ gen.pc = "denoising"
    /\ gen.step = gen.num_inference_steps
    /\ LET n == gen.num_devices * gen.batch_size
           data == [i \in 1..n |-> VaeDecode(gen.latents, i)]
           shape == IF gen.jit
                    THEN <<gen.num_devices, gen.batch_size, gen.height, gen.width, 3>>
                    ELSE <<gen.batch_size, gen.height, gen.width, 3>>
       IN  gen' = [gen EXCEPT
               !.pc = "decoded", !.decoded = data,
               !.images = [shape |-> shape, data |-> data],
               !.computed = @ \cup {"vae_decode"}]
    /\ UNCHANGED <<hist, req, fs, pipe, vid, wm, app, prep>>

\* _run_safety_checker, lines 202-209: flagged images of the flat array become black
RunSafetyChecker(images, has_nsfw_concepts) ==
    [idx \in 1..Len(images) |-> IF has_nsfw_concepts[idx] THEN 0 ELSE images[idx]]

\* images[i] = value on an array whose first axis has `first` entries of `inner`
\* images each (i counts from 0): every image under first-axis index i is set
SetFirstAxis(data, inner, i, value) ==
    [j \in 1..Len(data) |-> IF (j - 1) \div inner = i THEN value ELSE data[j]]

RECURSIVE BlockImages(_, _, _, _, _, _)
\* __call__, lines 438-441: for i, is_nsfw in enumerate(has_nsfw_concept)
BlockImages(data, first, inner, casted, has_nsfw_concept, i) ==
    IF i >= Len(has_nsfw_concept) THEN [ok |-> TRUE, data |-> data]
    ELSE IF ~has_nsfw_concept[i + 1]
    THEN BlockImages(data, first, inner, casted, has_nsfw_concept, i + 1)
    ELSE IF i >= first THEN [ok |-> FALSE, data |-> data]
    ELSE BlockImages(SetFirstAxis(data, inner, i, casted[i + 1]),
                     first, inner, casted, has_nsfw_concept, i + 1)

\* __call__, lines 428-446, with _run_safety_checker, lines 189-217
G_SafetyCheck ==
    /\ gen.pc = "decoded"
    /\ IF pipe.safety_checker
       THEN LET shape == gen.images.shape
                num_devices == shape[1]
                batch_size == shape[2]
                flat == <<num_devices * batch_size, gen.height, gen.width, 3>>
            IN  IF Prod(flat) /= Prod(shape)
                THEN \* line 433: the array cannot be reshaped
                     gen' = [gen EXCEPT !.pc = "error", !.err = "ReshapeError"]
                ELSE \E has_nsfw_concept \in [1..(num_devices * batch_size) -> BOOLEAN] :
                       LET images_uint8_casted ==
                               RunSafetyChecker([i \in 1..Len(gen.images.data) |->
                                                    CastUint8(gen.images.data[i])],
                                                has_nsfw_concept)
                           blocked == BlockImages(gen.images.data, num_devices, batch_size,
                                                  images_uint8_casted, has_nsfw_concept, 0)
                       IN  IF blocked.ok
                           THEN gen' = [gen EXCEPT
                                   !.pc = "safety_checked",
                                   !.images = [shape |-> <<num_devices, batch_size,
                                                           gen.height, gen.width, 3>>,
                                               data |-> blocked.data],
                                   !.has_nsfw_concept = has_nsfw_concept,
                                   !.computed = @ \cup {"safety_checker"}]
                           ELSE \* line 441: index i is out of bounds for the first axis
                                gen' = [gen EXCEPT
                                   !.pc = "error", !.err = "IndexError",
                                   !.has_nsfw_concept = has_nsfw_concept,
                                   !.computed = @ \cup {"safety_checker"}]
       ELSE gen' = [gen EXCEPT !.pc = "safety_checked", !.has_nsfw_concept = <<>>]
    /\ UNCHANGED <<hist, req, fs, pipe, vid, wm, app, prep>>

\* __call__, lines 448-451
G_Return ==
    /\ gen.pc = "safety_checked"
    /\ gen' = [gen EXCEPT !.pc = "done"]
    /\ UNCHANGED <<hist, req, fs, pipe, vid, wm, app, prep>>

\* the caller takes the result (or the exception) and the call's frame is gone
G_Finish ==
    /\ gen.pc \in {"done", "error"}
    /\ gen' = GenIdle
    /\ UNCHANGED <<hist, req, fs, pipe, vid, wm, app, prep>>

(***************************************************************************)
(* Repeated generate calls.  A call is followed either by a fresh call or  *)
(* by a call with the very same arguments; hist keeps what the repeated    *)
(* call is compared with, and is emptied when a fresh call is to follow.   *)
(***************************************************************************)
\* what the caller of __call__ observes, lines 448-451 (or the exception)
Outcome(g) ==
    [pc |-> g.pc, err |-> g.err, images |-> g.images,
     has_nsfw_concept |-> g.has_nsfw_concept]

\* __call__, lines 384-400: a call with fresh arguments
R_Call ==
    /\ hist.prev = <<>>
    /\ G_CallArgs
    /\ hist' = [pipe0 |-> <<pipe>>, prev |-> <<>>, replay |-> FALSE]
    /\ UNCHANGED <<req, fs, pipe, vid, wm, app, prep>>

\* the call returns or raises; its arguments and outcome are remembered
R_Finish ==
    /\ gen.pc \in {"done", "error"}
    /\ gen' = GenIdle
    /\ hist' = [hist EXCEPT !.prev = <<gen>>, !.replay = FALSE]
    /\ UNCHANGED <<req, fs, pipe, vid, wm, app, prep>>

\* the call returns or raises and the next call will not be compared with it
R_FinishFresh ==
    /\ gen.pc \in {"done", "error"}
    /\ gen' = GenIdle
    /\ hist' = HistIdle
    /\ UNCHANGED <<req, fs, pipe, vid, wm, app, prep>>

\* __call__, lines 384-400, on the non-parallel path (jit = False): a call
\* with the arguments of the call that finished last
R_Replay ==
    /\ AllIdle
    /\ hist.prev /= <<>>
    /\ ~hist.prev[1].jit
    /\ LET a == hist.prev[1]
       IN  gen' = [GenIdle EXCEPT
               !.pc = "called", !.height = a.height, !.width = a.width,
               !.jit = a.jit, !.num_devices = a.num_devices,
               !.batch_size = a.batch_size, !.prompt_ids = a.prompt_ids,
               !.neg_prompt_ids = a.neg_prompt_ids, !.latents_arg = a.latents_arg,
               !.num_inference_steps = a.num_inference_steps,
               !.guidance_scale = a.guidance_scale, !.prng_seed = a.prng_seed]
    /\ hist' = [hist EXCEPT !.pipe0 = <<pipe>>, !.replay = TRUE]
    /\ UNCHANGED <<req, fs, pipe, vid, wm, app, prep>>

(***************************************************************************)
(* utils.prepare_video.  Times and frame rates are rationals <<n, d>>,     *)
(* d > 0; int() truncates toward zero.                                     *)
(***************************************************************************)
MaxFrames == 3
MaxFpsN == 4
MaxTimeN == 3
MaxOutFps == 2
\* the source frame rate is fps_n / 2 frames per second, start_t and end_t
\* are given in halves of a second
FpsDen == 2
TimeDen == 2
\* (height, width) of the frames of the source video
FrameShapes ==
    {<<300, 600>>, <<600, 300>>, <<96, 96>>, <<10, 1000>>, <<480, 640>>, <<1, 1>>,
     <<720, 1280>>, <<1080, 1920>>, <<100, 37>>, <<64, 64>>}
Resolutions == {64, 96, 160, 512}

RLt(a, b) == a[1] * b[2] < b[1] * a[2]
RLe(a, b) == a[1] * b[2] <= b[1] * a[2]
REq(a, b) == a[1] * b[2] = b[1] * a[2]
RMin(a, b) == IF RLt(b, a) THEN b ELSE a
RSub(a, b) == <<a[1] * b[2] - b[1] * a[2], a[2] * b[2]>>
RMul(a, b) == <<a[1] * b[1], a[2] * b[2]>>
RInt(a) == IF a[1] >= 0 THEN a[1] \div a[2] ELSE -((-a[1]) \div a[2])
\* np.round of n / d (d > 0, n >= 0): to the nearest integer, halves to the even one
RoundHalfEven(n, d) ==
    LET q == n \div d
        r == n % d
    IN  IF 2 * r < d THEN q
        ELSE IF 2 * r > d THEN q + 1
        ELSE IF q % 2 = 0 THEN q ELSE q + 1
Max(a, b) == IF a >= b THEN a ELSE b
Min(a, b) == IF a <= b THEN a ELSE b

\* lines 108-109
ResolveOutputFpsCeil(output_fps, initial_fps) ==
    IF output_fps = -1 THEN (initial_fps[1] + initial_fps[2] - 1) \div initial_fps[2]
    ELSE output_fps
ResolveOutputFps(output_fps, initial_fps) ==
    IF output_fps = -1 THEN RInt(initial_fps) ELSE output_fps

\* lines 110-113
ResolveEndT(end_t, frames, initial_fps) ==
    LET duration == <<frames * initial_fps[2], initial_fps[1]>>
    IN  IF REq(end_t, <<-1, 1>>) THEN duration ELSE RMin(duration, end_t)

\* lines 114-115: the two assertions
TrimValidLoose(start_t, end_t, output_fps) ==
    /\ RLe(<<0, 1>>, start_t)
    /\ RLe(start_t, end_t)
    /\ output_fps >= 0
TrimValid(start_t, end_t, output_fps) ==
    /\ RLe(<<0, 1>>, start_t)
    /\ RLt(start_t, end_t)
    /\ output_fps > 0

\* lines 128-132: the size a dimension `side` of an h x w frame is resized to
TargetSideFloor(side, h, w, resolution) ==
    ((side * resolution) \div (Max(h, w) * 64)) * 64
TargetSide(side, h, w, resolution) ==
    RoundHalfEven(side * resolution, Max(h, w) * 64) * 64

\* line 105: the arguments are bound
PV_Call ==
    /\ AllIdle
    /\ \E frames \in 1..MaxFrames, fps_n \in 1..MaxFpsN, shape \in FrameShapes,
          resolution \in Resolutions, sn \in -1..MaxTimeN,
          en \in -(TimeDen + 1)..MaxTimeN, output_fps \in -1..MaxOutFps :
         vid' = [VidIdle EXCEPT
             !.pc = "called", !.frames = frames, !.fps_n = fps_n,
             !.frame_h = shape[1], !.frame_w = shape[2], !.resolution = resolution,
             !.start_t = <<sn, TimeDen>>, !.end_t_arg = <<en, TimeDen>>,
             !.output_fps_arg = output_fps]
    /\ UNCHANGED <<hist, req, fs, pipe, gen, wm, app, prep>>

\* lines 106-115
PV_Resolve ==
    /\ vid.pc = "called"
    /\ LET initial_fps == <<vid.fps_n, FpsDen>>
           output_fps == ResolveOutputFps(vid.output_fps_arg, initial_fps)
           end_t == ResolveEndT(vid.end_t_arg, vid.frames, initial_fps)
       IN  IF TrimValid(vid.start_t, end_t, output_fps)
           THEN vid' = [vid EXCEPT !.pc = "validated", !.end_t = end_t,
                                   !.output_fps = output_fps]
           ELSE vid' = [vid EXCEPT !.pc = "error", !.err = "InvalidInput",
                                   !.end_t = end_t, !.output_fps = output_fps]
    /\ UNCHANGED <<hist, req, fs, pipe, gen, wm, app, prep>>

\* np.linspace(start, stop, num, endpoint=True).astype(int): the last point is stop
LinspaceEndpoint(start, stop, num) ==
    [i \in 1..num |->
        IF num = 1 THEN start
        ELSE RInt(<<start * (num - 1) + (i - 1) * (stop - start), num - 1>>)]

\* line 119, np.linspace(start, stop, num, endpoint=False).astype(int): the
\* points start + i * (stop - start) / num, i = 0 .. num - 1, truncated
Linspace(start, stop, num) ==
    [i \in 1..num |-> RInt(<<start * num + (i - 1) * (stop - start), num>>)]

\* lines 116-121
PV_Sample ==
    /\ vid.pc = "validated"
    /\ LET initial_fps == <<vid.fps_n, FpsDen>>
           start_f_ind == RInt(RMul(vid.start_t, initial_fps))
           end_f_ind == RInt(RMul(vid.end_t, initial_fps))
           num_f == RInt(RMul(RSub(vid.end_t, vid.start_t), <<vid.output_fps, 1>>))
           sample_idx == Linspace(start_f_ind, end_f_ind, num_f)
       IN  vid' = [vid EXCEPT !.pc = "sampled", !.start_f_ind = start_f_ind,
                              !.end_f_ind = end_f_ind, !.num_f = num_f,
                              !.sample_idx = sample_idx, !.decoded = TRUE]
    /\ UNCHANGED <<hist, req, fs, pipe, gen, wm, app, prep>>

\* lines 122-134; what Resize does with a target side of 0 is the library's
\* affair: it raises, or it returns frames of no pixels
PV_Resize ==
    /\ vid.pc = "sampled"
    /\ LET h == TargetSide(vid.frame_h, vid.frame_h, vid.frame_w, vid.resolution)
           w == TargetSide(vid.frame_w, vid.frame_h, vid.frame_w, vid.resolution)
       IN  \/ vid' = [vid EXCEPT !.pc = "resized", !.h = h, !.w = w, !.resized = TRUE]
           \/ /\ h = 0 \/ w = 0
              /\ vid' = [vid EXCEPT !.pc = "error", !.err = "ResizeError",
                                    !.h = h, !.w = w]
    /\ UNCHANGED <<hist, req, fs, pipe, gen, wm, app, prep>>

\* lines 135-139
PV_Return ==
    /\ vid.pc = "resized"
    /\ vid' = [vid EXCEPT !.pc = "done", !.returned_fps = <<vid.output_fps>>]
    /\ UNCHANGED <<hist, req, fs, pipe, gen, wm, app, prep>>

PV_Finish ==
    /\ vid.pc \in {"done", "error"}
    /\ vid' = VidIdle
    /\ UNCHANGED <<hist, req, fs, pipe, gen, wm, app, prep>>

(***************************************************************************)
(* utils.add_watermark                                                     *)
(***************************************************************************)
MaxWmSide == 3
\* (H, W) of the image, wm_rel_size = 1 / rel_den, boundary
WmImageDims == {8, 100, 1000, 1024}
WmRelDens == {8, 16}
WmBoundaries == {0, 5}

\* lines 31-36: the (width, height) the watermark is resized to
WatermarkSizeLarger(H, W, w_0, h_0, rel_den) ==
    LET wmsize == Max(H, W) \div rel_den
    IN  IF h_0 > w_0 THEN <<(wmsize * w_0) \div h_0, wmsize>>
        ELSE <<wmsize, (wmsize * h_0) \div w_0>>
WatermarkSize(H, W, w_0, h_0, rel_den) ==
    LET wmsize == Max(H, W) \div rel_den
    IN  IF h_0 > w_0 THEN <<wmsize, (h_0 * wmsize) \div w_0>>
        ELSE <<(wmsize * w_0) \div h_0, wmsize>>

\* lines 38-39: (loc_w, loc_h), the top-left corner the watermark is pasted at
PasteLoc(H, W, w, h, boundary) == <<W - w - boundary, H - h - boundary>>

\* lines 22-43
AddWatermark ==
    /\ AllIdle
    /\ \E H \in WmImageDims, W \in WmImageDims, w_0 \in 1..MaxWmSide,
          h_0 \in 1..MaxWmSide, rel_den \in WmRelDens, boundary \in WmBoundaries :
         LET size == WatermarkSize(H, W, w_0, h_0, rel_den)
             loc == PasteLoc(H, W, size[1], size[2], boundary)
             args == [WmIdle EXCEPT !.H = H, !.W = W, !.w_0 = w_0, !.h_0 = h_0,
                                    !.rel_den = rel_den, !.boundary = boundary,
                                    !.wmsize = Max(H, W) \div rel_den]
         IN  IF size[1] <= 0 \/ size[2] <= 0
             THEN \* Image.resize rejects an empty size
                  wm' = [args EXCEPT !.pc = "error", !.err = "ValueError"]
             ELSE wm' = [args EXCEPT !.pc = "done", !.w = size[1], !.h = size[2],
                                     !.loc_w = loc[1], !.loc_h = loc[2]]
    /\ UNCHANGED <<hist, req, fs, pipe, gen, vid, app, prep>>

WM_Finish ==
    /\ wm.pc \in {"done", "error"}
    /\ wm' = WmIdle
    /\ UNCHANGED <<hist, req, fs, pipe, gen, vid, app, prep>>

(***************************************************************************)
(* app.py: the application shell                                           *)
(***************************************************************************)
\* the value of SPACE_AUTHOR_NAME in the environment, or <<>> when it is absent
Environs == Opt({"", "PAIR", "0"})

\* line 12: huggingspace_name if huggingspace_name is not None else False
\* (False is <<>>)
OnHuggingspace(huggingspace_name) ==
    IF huggingspace_name /= <<>> THEN huggingspace_name ELSE <<>>

\* lines 51 and 67: the truth value Python gives on_huggingspace
Truthy(on_huggingspace) == on_huggingspace /= <<>> /\ on_huggingspace[1] /= ""

\* lines 11-21
A_Start ==
    /\ AllIdle
    /\ \E environ \in Environs, public_access \in BOOLEAN :
         app' = [AppIdle EXCEPT !.pc = "started", !.environ = environ,
                                !.public_access = public_access,
                                !.on_huggingspace = OnHuggingspace(environ)]
    /\ UNCHANGED <<hist, req, fs, pipe, gen, vid, wm, prep>>

\* lines 24-65
A_Build ==
    /\ app.pc = "started"
    /\ app' = [app EXCEPT
           !.pc = "built",
           !.banner = Truthy(app.on_huggingspace),
           !.tabs = <<"Control Animation", "Zero-Shot Text2Video", "Pose Conditional">>]
    /\ UNCHANGED <<hist, req, fs, pipe, gen, vid, wm, prep>>

\* lines 67-74
A_Launch ==
    /\ app.pc = "built"
    /\ IF Truthy(app.on_huggingspace)
       THEN app' = [app EXCEPT
               !.pc = "launched",
               !.queue = <<[max_size |-> <<20>>, api_open |-> TRUE]>>,
               !.launch = <<[file_directories |-> <<>>, share |-> FALSE, debug |-> TRUE]>>,
               !.printed = FALSE]
       ELSE app' = [app EXCEPT
               !.pc = "launched",
               !.queue = <<[max_size |-> <<>>, api_open |-> FALSE]>>,
               !.launch = <<[file_directories |-> <<"temporal">>,
                             share |-> app.public_access, debug |-> TRUE]>>,
               !.printed = TRUE]
    /\ UNCHANGED <<hist, req, fs, pipe, gen, vid, wm, prep>>

\* the server is stopped and the process ends
A_Exit ==
    /\ app.pc = "launched"
    /\ app' = AppIdle
    /\ UNCHANGED <<hist, req, fs, pipe, gen, vid, wm, prep>>

(***************************************************************************)
(* prepare_text_inputs and prepare_image_inputs.  An argument is           *)
(* [kind, one, list]: its Python type, its value when it is a single       *)
(* string or image, and its items when it is a list.                       *)
(***************************************************************************)
MaxListLen == 2
PrepValues == {1, 2}

RECURSIVE SeqsUpTo(_, _)
SeqsUpTo(S, n) ==
    IF n = 0 THEN {<<>>}
    ELSE LET shorter == SeqsUpTo(S, n - 1)
         IN  shorter \cup {Append(q, x) : q \in {r \in shorter : Len(r) = n - 1}, x \in S}

TextArgs ==
    {[kind |-> "str", one |-> x, list |-> <<>>] : x \in PrepValues}
      \cup {[kind |-> "list", one |-> 0, list |-> q] : q \in SeqsUpTo(PrepValues, MaxListLen) \ {<<>>}}
      \cup {[kind |-> k, one |-> x, list |-> <<>>] :
              k \in {"tuple", "int", "NoneType", "ndarray"}, x \in {1}}

ImageArgs ==
    {[kind |-> "Image", one |-> x, list |-> <<>>] : x \in PrepValues}
      \cup {[kind |-> "list", one |-> 0, list |-> q] : q \in SeqsUpTo(PrepValues, MaxListLen)}
      \cup {[kind |-> k, one |-> x, list |-> <<>>] :
              k \in {"tuple", "str", "NoneType", "ndarray"}, x \in {1}}

\* the tokenizer's padded token ids of one prompt, and preprocess(img, jnp.float32)
Tokenize(prompt) == 100 + prompt
Preprocess(img) == 200 + img

\* line 161: isinstance(prompt, (str, list))
IsTextTypeWithTuple(kind) == kind \in {"str", "list", "tuple"}
IsTextType(kind) == kind \in {"str", "list"}

\* line 175: isinstance(image, (Image.Image, list))
IsImageType(kind) == kind \in {"Image", "list"}

\* lines 178-179
AsImageList(arg) == IF arg.kind = "Image" THEN <<arg.one>> ELSE arg.list

\* lines 160-172
PrepareTextInputs(arg) ==
    IF ~IsTextType(arg.kind)
    THEN [PrepIdle EXCEPT !.pc = "error", !.err = "InvalidInput",
                          !.fn = "prepare_text_inputs", !.arg = arg]
    ELSE LET prompts == IF arg.kind = "str" THEN <<arg.one>> ELSE arg.list
         IN  [PrepIdle EXCEPT !.pc = "done", !.fn = "prepare_text_inputs", !.arg = arg,
                              !.computed = {"tokenizer"},
                              !.result = [i \in 1..Len(prompts) |-> Tokenize(prompts[i])]]

\* lines 174-183
PrepareImageInputs(arg) ==
    IF ~IsImageType(arg.kind)
    THEN [PrepIdle EXCEPT !.pc = "error", !.err = "InvalidInput",
                          !.fn = "prepare_image_inputs", !.arg = arg]
    ELSE LET image == AsImageList(arg)
         IN  IF image = <<>>
             THEN \* jnp.concatenate of no arrays
                  [PrepIdle EXCEPT !.pc = "error", !.err = "ValueError",
                                   !.fn = "prepare_image_inputs", !.arg = arg]
             ELSE [PrepIdle EXCEPT !.pc = "done", !.fn = "prepare_image_inputs",
                                   !.arg = arg, !.computed = {"preprocess"},
                                   !.result = [i \in 1..Len(image) |-> Preprocess(image[i])]]

P_Text ==
    /\ AllIdle
    /\ \E arg \in TextArgs : prep' = PrepareTextInputs(arg)
    /\ UNCHANGED <<hist, req, fs, pipe, gen, vid, wm, app>>

P_Image ==
    /\ AllIdle
    /\ \E arg \in ImageArgs : prep' = PrepareImageInputs(arg)
    /\ UNCHANGED <<hist, req, fs, pipe, gen, vid, wm, app>>

P_Finish ==
    /\ prep.pc \in {"done", "error"}
    /\ prep' = PrepIdle
    /\ UNCHANGED <<hist, req, fs, pipe, gen, vid, wm, app>>

(***************************************************************************)
(* The specification                                                       *)
(***************************************************************************)
Next ==
    \/ G_Call
    \/ G_Validate
    \/ G_EncodeText
    \/ G_PrepareImage
    \/ G_InitLatents
    \/ G_SetTimesteps
    \/ G_Step
    \/ G_FusedLoop
    \/ G_Decode
    \/ G_SafetyCheck
    \/ G_Return
    \/ G_Finish
    \/ PV_Call
    \/ PV_Resolve
    \/ PV_Sample
    \/ PV_Resize
    \/ PV_Return
    \/ PV_Finish
    \/ AddWatermark
    \/ WM_Finish
    \/ A_Start
    \/ A_Build
    \/ A_Launch
    \/ A_Exit
    \/ P_Text
    \/ P_Image
    \/ P_Finish

Spec == Init /\ [][Next]_vars

\* generate calls one after the other, each either fresh or a repetition
NextReplay ==
    \/ R_Call
    \/ R_Replay
    \/ G_Validate
    \/ G_EncodeText
    \/ G_PrepareImage
    \/ G_InitLatents
    \/ G_SetTimesteps
    \/ G_Step
    \/ G_FusedLoop
    \/ G_Decode
    \/ G_SafetyCheck
    \/ G_Return
    \/ R_Finish
    \/ R_FinishFresh

SpecReplay == Init /\ [][NextReplay]_vars

(***************************************************************************)
(* utils.create_video, create_gif, post_process_gif.  Requests run         *)
(* concurrently, each a sequence of steps; fs maps a path to the content   *)
(* of the file there (<<>> while there is none), a content being the       *)
(* writer's rendered outputs.  imageio.mimsave is taken as one step.       *)
(***************************************************************************)
\* a default path that differs per kind only in its directory
DefaultPathOneName(kind) ==
    IF kind = "video" THEN "temporal/movie.mp4"
    ELSE IF kind = "gif" THEN "temporal/movie.mp4"
    ELSE "/tmp/ddxk.gif"

\* lines 65-68, 86-89, 143: the path written when the caller gives none
DefaultPath(kind) ==
    IF kind = "video" THEN "temporal/movie.mp4"
    ELSE IF kind = "gif" THEN "temporal/canny_db.gif"
    ELSE "/tmp/ddxk.gif"

\* lines 70-80, 91-100: the tiled (and watermarked) images of the frames;
\* post_process_gif saves its list as it is
Render(kind, frames) ==
    IF kind = "post" THEN <<"list", frames>> ELSE <<"grid", frames>>

\* a request calls one of the three functions; post_process_gif has no path
\* parameter
Q_Call(r) ==
    /\ req[r].pc = "idle"
    /\ \E kind \in Kinds, path_arg \in Opt(ExplicitPaths) :
         /\ (kind = "post") => path_arg = <<>>
         /\ req' = [req EXCEPT ![r] = [ReqIdle EXCEPT
                !.pc = "called", !.kind = kind, !.frames = r, !.path_arg = path_arg]]
    /\ UNCHANGED <<fs, hist, pipe, gen, vid, wm, app, prep>>

\* lines 65-68, 86-89, 143
Q_ResolvePath(r) ==
    /\ req[r].pc = "called"
    /\ req' = [req EXCEPT ![r].pc = "resolved",
                          ![r].path = IF req[r].path_arg = <<>>
                                      THEN DefaultPath(req[r].kind)
                                      ELSE req[r].path_arg[1]]
    /\ UNCHANGED <<fs, hist, pipe, gen, vid, wm, app, prep>>

\* lines 70-80, 91-100
Q_Render(r) ==
    /\ req[r].pc = "resolved"
    /\ req' = [req EXCEPT ![r].pc = "rendered",
                          ![r].outputs = Render(req[r].kind, req[r].frames)]
    /\ UNCHANGED <<fs, hist, pipe, gen, vid, wm, app, prep>>

\* lines 82, 102, 144: imageio.mimsave(path, outputs), whatever the file held
Q_Save(r) ==
    /\ req[r].pc = "rendered"
    /\ fs' = [fs EXCEPT ![req[r].path] = <<req[r].outputs>>]
    /\ req' = [req EXCEPT ![r].pc = "saved"]
    /\ UNCHANGED <<hist, pipe, gen, vid, wm, app, prep>>

\* lines 83, 103, 145: return path
Q_Return(r) ==
    /\ req[r].pc = "saved"
    /\ req' = [req EXCEPT ![r].pc = "returned", ![r].returned = <<req[r].path>>]
    /\ UNCHANGED <<fs, hist, pipe, gen, vid, wm, app, prep>>

\* the caller has used the returned path; the request is over
Q_Finish(r) ==
    /\ req[r].pc = "returned"
    /\ req' = [req EXCEPT ![r] = ReqIdle]
    /\ UNCHANGED <<fs, hist, pipe, gen, vid, wm, app, prep>>

NextShared ==
    \/ \E r \in Requests : Q_Call(r)
    \/ \E r \in Requests : Q_ResolvePath(r)
    \/ \E r \in Requests : Q_Render(r)
    \/ \E r \in Requests : Q_Save(r)
    \/ \E r \in Requests : Q_Return(r)
    \/ \E r \in Requests : Q_Finish(r)

SpecShared == Init /\ [][NextShared]_vars

(***************************************************************************)
(* Properties                                                              *)
(***************************************************************************)

\* C1: an image whose height or width is not divisible by 64 makes generate fail
\* with InvalidInput before any model computation (text encoding, latent
\* sampling, scheduler initialisation, denoising, decode, safety check); an
\* image with both divisible by 64 never fails this check.
C1_DivisibleBy64 ==
    gen.pc \notin {"idle", "called"} =>
        IF gen.height % 64 /= 0 \/ gen.width % 64 /= 0
        THEN gen.pc = "error" /\ gen.err = "InvalidInput" /\ gen.computed = {}
             /\ gen.step = 0 /\ gen.images.data = <<>>
        ELSE gen.err /= "InvalidInput"

\* a 512 x 300 image (only the width is not divisible by 64) has been rejected
C1_Witness ==
    /\ gen.pc = "error"
    /\ gen.err = "InvalidInput"
    /\ gen.height = 512
    /\ gen.width = 300

\* C2: with a safety checker configured, for every number of devices, batch
\* size and set of flagged images the call returns normally, every flagged
\* image of the flattened output is all zeros and every other image equals the
\* decoded image (stated here for the calls that shard the batch over
\* devices, jit = True).
C2_FlaggedBlackOthersUnchanged ==
    (pipe.safety_checker /\ gen.jit /\ gen.pc \in {"done", "error"}
       /\ "vae_decode" \in gen.computed) =>
        /\ gen.pc = "done"
        /\ \A i \in 1..Len(gen.has_nsfw_concept) :
             IF gen.has_nsfw_concept[i]
             THEN gen.images.data[i] = 0
             ELSE gen.images.data[i] = gen.decoded[i]

\* C3: the expected latent shape is (batch size, denoiser input channels,
\* height / vae_scale_factor, width / vae_scale_factor), 64 x 64 for 512 x 512;
\* supplied latents of another shape fail with ShapeMismatch before the
\* scheduler is initialised or a step runs, matching ones are used as given,
\* and absent ones are sampled from the seed in exactly that shape.
C3_LatentsShape ==
    gen.latents_shape /= <<>> =>
        LET expected == <<gen.batch_size, UnetInChannels,
                          gen.height \div vae_scale_factor,
                          gen.width \div vae_scale_factor>>
        IN  /\ gen.latents_shape = expected
            /\ gen.height = 512 => expected[3] = 64
            /\ gen.width = 512 => expected[4] = 64
            /\ IF gen.latents_arg = <<>>
               THEN /\ gen.err /= "ShapeMismatch"
                    /\ "random_normal" \in gen.computed
                    /\ gen.latents0 = RandomNormal(gen.prng_seed, expected)
               ELSE IF gen.latents_arg[1].shape /= expected
               THEN /\ gen.pc = "error"
                    /\ gen.err = "ShapeMismatch"
                    /\ gen.computed \cap {"set_timesteps", "controlnet", "unet",
                                          "scheduler_step", "vae_decode"} = {}
                    /\ gen.step = 0
               ELSE /\ gen.err /= "ShapeMismatch"
                    /\ "random_normal" \notin gen.computed
                    /\ gen.latents0 = gen.latents_arg[1].val

\* latents of a wrong shape were supplied for a 512 x 512 image and rejected
C3_Witness ==
    /\ gen.pc = "error"
    /\ gen.err = "ShapeMismatch"
    /\ gen.height = 512
    /\ gen.width = 512
    /\ gen.latents_shape = <<gen.batch_size, 4, 64, 64>>

\* C4: the context is negative-then-positive, the first half of the doubled
\* prediction is the unconditional one, the second the text-conditioned one, and
\* on every step the scheduler is handed
\* unconditional + guidance_scale * (text_conditioned - unconditional): the
\* difference from the unconditional prediction is linear in guidance_scale.
C4_Guidance ==
    gen.step > 0 =>
        LET neg == IF gen.neg_prompt_ids = <<>> THEN TokenizerEmpty
                   ELSE gen.neg_prompt_ids[1]
            unconditional == Unet(gen.last.latents_input, TextEncoder(neg),
                                  gen.last.t, gen.last.res[1])
            text_conditioned == Unet(gen.last.latents_input, TextEncoder(gen.prompt_ids),
                                     gen.last.t, gen.last.res[2])
        IN  /\ gen.context = <<TextEncoder(neg), TextEncoder(gen.prompt_ids)>>
            /\ gen.last.noise_pred - unconditional
                 = gen.guidance_scale * (text_conditioned - unconditional)
            /\ gen.guidance_scale = 0 => gen.last.noise_pred = unconditional
            /\ gen.guidance_scale = 1 => gen.last.noise_pred = text_conditioned
            /\ gen.latents = SchedulerStep(gen.last.latents, gen.last.noise_pred, gen.last.t)
            /\ gen.last.t = gen.timesteps[gen.step]

\* a step has run with guidance_scale 3 and the two predictions differ
C4_Witness ==
    /\ gen.step > 0
    /\ gen.guidance_scale = 3
    /\ gen.neg_prompt_ids /= <<>>
    /\ gen.last.noise_pred
         /= Unet(gen.last.latents_input, TextEncoder(gen.neg_prompt_ids[1]),
                 gen.last.t, gen.last.res[1])

C6_TrimValidation ==
    vid.pc \notin {"idle", "called"} =>
        LET duration == <<vid.frames * FpsDen, vid.fps_n>>
            violates == \/ RLt(vid.start_t, <<0, 1>>)
                        \/ ~RLt(vid.start_t, vid.end_t)
                        \/ vid.output_fps <= 0
        IN  /\ violates =>
                 /\ vid.pc = "error"
                 /\ vid.err = "InvalidInput"
                 /\ vid.sample_idx = <<>>
                 /\ ~vid.decoded
                 /\ ~vid.resized
            /\ RLe(duration, vid.start_t) => violates
            /\ (vid.output_fps_arg = 0) => violates
            /\ (~REq(vid.end_t_arg, <<-1, 1>>) /\ RLe(vid.end_t_arg, vid.start_t)) => violates

\* a call with start_t after a positive end_t (as start_t = 5, end_t = 2) failed
C6_Witness ==
    /\ vid.pc = "error"
    /\ vid.err = "InvalidInput"
    /\ RLt(<<0, 1>>, vid.end_t_arg)
    /\ RLt(vid.end_t_arg, vid.start_t)
    /\ vid.output_fps > 0

\* C7 as claimed: an unset output_fps resolves to, and is returned as, the
\* source frame rate; an explicit one is returned unchanged; an unset end_t
\* resolves to the duration, another to min(duration, end_t).
C7_FpsIsSourceRate ==
    vid.pc = "done" =>
        LET duration == <<vid.frames * FpsDen, vid.fps_n>>
        IN  /\ vid.output_fps_arg = -1 =>
                 REq(<<vid.returned_fps[1], 1>>, <<vid.fps_n, FpsDen>>)
            /\ vid.output_fps_arg /= -1 => vid.returned_fps = <<vid.output_fps_arg>>
            /\ IF REq(vid.end_t_arg, <<-1, 1>>)
               THEN REq(vid.end_t, duration)
               ELSE REq(vid.end_t, RMin(duration, vid.end_t_arg))

\* C7 as amended: an unset output_fps resolves to, and is returned as, the
\* source frame rate truncated to an integer (the source rate itself when that
\* is integral); the rest as claimed.
C7_FpsIsTruncatedSourceRate ==
    vid.pc \notin {"idle", "called"} =>
        LET duration == <<vid.frames * FpsDen, vid.fps_n>>
        IN  /\ vid.output_fps_arg = -1 =>
                 /\ vid.output_fps = vid.fps_n \div FpsDen
                 /\ (vid.fps_n % FpsDen = 0) =>
                        REq(<<vid.output_fps, 1>>, <<vid.fps_n, FpsDen>>)
            /\ vid.output_fps_arg /= -1 => vid.output_fps = vid.output_fps_arg
            /\ vid.pc = "done" => vid.returned_fps = <<vid.output_fps>>
            /\ IF REq(vid.end_t_arg, <<-1, 1>>)
               THEN REq(vid.end_t, duration)
               ELSE REq(vid.end_t, RMin(duration, vid.end_t_arg))

\* a call on a video of 1.5 frames per second with output_fps and end_t unset
\* returned the frame rate 1
C7_Witness ==
    /\ vid.pc = "done"
    /\ vid.output_fps_arg = -1
    /\ REq(vid.end_t_arg, <<-1, 1>>)
    /\ vid.fps_n = 3
    /\ vid.returned_fps = <<1>>
    /\ REq(vid.end_t, <<vid.frames * 2, 3>>)

\* C8: both output dimensions are multiples of 64; the larger source dimension
\* maps to the multiple of 64 nearest to resolution (so at most 32 away from
\* it), the other to the multiple of 64 nearest to k times its size,
\* k = resolution / max(h, w).
C8_ResizeToNearest64 ==
    vid.resized =>
        LET big == Max(vid.frame_h, vid.frame_w)
            Abs(x) == IF x < 0 THEN -x ELSE x
            \* out is a multiple of 64 nearest to side * resolution / big
            Nearest(out, side) ==
                /\ out % 64 = 0
                /\ 2 * Abs(out * big - side * vid.resolution) <= 64 * big
        IN  /\ Nearest(vid.h, vid.frame_h)
            /\ Nearest(vid.w, vid.frame_w)
            /\ vid.frame_h = big => Abs(vid.h - vid.resolution) <= 32
            /\ vid.frame_w = big => Abs(vid.w - vid.resolution) <= 32

\* a 300 x 600 video was resized for resolution 512: 600 -> 512, 300 -> 256
C8_Witness ==
    /\ vid.resized
    /\ vid.frame_h = 300
    /\ vid.frame_w = 600
    /\ vid.resolution = 512
    /\ vid.w = 512
    /\ vid.h = 256

\* C9: the process takes the managed-hosting branch (banner, queue of maximum
\* depth 20, no link printed) exactly when SPACE_AUTHOR_NAME is present in the
\* environment, whatever its value, and the local branch (API endpoint closed,
\* 'temporal' served, sharing as --public_access, link printed) exactly when
\* it is absent.
C9_PresenceSelectsManaged ==
    app.pc = "launched" =>
        LET managed == /\ app.banner
                       /\ app.queue[1].max_size = <<20>>
                       /\ ~app.printed
            local == /\ ~app.banner
                     /\ app.queue[1].api_open = FALSE
                     /\ app.launch[1].file_directories = <<"temporal">>
                     /\ app.launch[1].share = app.public_access
                     /\ app.printed
        IN  IF app.environ /= <<>> THEN managed /\ ~local ELSE local /\ ~managed

\* C10: an argument that is neither a string nor a list (text), or neither an
\* image nor a list (image), fails with InvalidInput before the tokenizer or
\* the preprocessing runs and with no result; a single image gives what the
\* one-element list holding it gives.
C10_TypeChecks ==
    prep.pc \in {"done", "error"} =>
        /\ (prep.fn = "prepare_text_inputs" /\ prep.arg.kind \notin {"str", "list"}) =>
              /\ prep.pc = "error"
              /\ prep.err = "InvalidInput"
              /\ prep.computed = {}
              /\ prep.result = <<>>
        /\ (prep.fn = "prepare_image_inputs" /\ prep.arg.kind \notin {"Image", "list"}) =>
              /\ prep.pc = "error"
              /\ prep.err = "InvalidInput"
              /\ prep.computed = {}
              /\ prep.result = <<>>
        /\ (prep.fn = "prepare_image_inputs" /\ prep.arg.kind = "Image") =>
              LET listed == PrepareImageInputs(
                                [kind |-> "list", one |-> 0, list |-> <<prep.arg.one>>])
              IN  /\ prep.pc = listed.pc
                  /\ prep.pc = "done"
                  /\ prep.result = listed.result
                  /\ prep.result = <<Preprocess(prep.arg.one)>>

\* prepare_text_inputs was called with a tuple and failed
C10_Witness ==
    /\ prep.pc = "error"
    /\ prep.fn = "prepare_text_inputs"
    /\ prep.arg.kind = "tuple"
    /\ prep.err = "InvalidInput"

StageRank ==
    [idle |-> 0, called |-> 0, validated |-> 0, text_encoded |-> 1,
     image_prepared |-> 2, latents_initialized |-> 3, denoising |-> 4,
     decoded |-> 5, safety_checked |-> 6, done |-> 7, error |-> 8]

\* C12: per generation call the stages occur in the order Idle, TextEncoded,
\* ImagePrepared, LatentsInitialized, Denoising, Decoded, SafetyChecked, Done,
\* none skipped or repeated; a call that passes validation (of the image sides
\* and of supplied latents) never ends in an exception, so it reaches Done;
\* the denoising stage counts its steps from 0 up to num_inference_steps, each
\* step using the timestep at its own index; decoding starts only after the
\* last step.
C12_StagesInOrderToDone ==
    /\ [](gen.pc = "error" => gen.err \in {"InvalidInput", "ShapeMismatch"})
    /\ [](gen.pc \in {"decoded", "safety_checked", "done"} =>
            gen.step = gen.num_inference_steps)
    /\ []((gen.pc = "denoising" /\ gen.step > 0) =>
            gen.last.t = gen.timesteps[gen.step])
    /\ [][/\ (gen.pc' /= gen.pc /\ gen.pc' \notin {"idle", "error"}) =>
               StageRank[gen.pc'] \in {StageRank[gen.pc], StageRank[gen.pc] + 1}
          /\ (gen.pc' = "called") => gen.pc = "idle"
          /\ (gen.pc = gen.pc' /\ gen.step' /= gen.step) =>
               /\ gen.pc = "denoising"
               /\ gen.step' = (IF pipe.DEBUG THEN gen.step + 1
                               ELSE gen.num_inference_steps)
               /\ gen.step' <= gen.num_inference_steps]_vars

\* C13: the two forms of the denoising loop are equivalent.  Whenever the
\* loop of a call has finished, under DEBUG = True (one python iteration per
\* step) as under DEBUG = False (the fused construct), the latents and the
\* record of the last step are those of the fused loop over the indices
\* 0 .. num_inference_steps - 1 started from the scaled initial latents, and
\* the decoded images are the decoding of those latents.
C13_LoopFormsEquivalent ==
    (gen.pc \in {"denoising", "decoded", "safety_checked", "done"}
       /\ gen.step = gen.num_inference_steps) =>
        LET fused == ForiLoop(0, gen.num_inference_steps,
                         [latents |-> gen.latents0 * InitNoiseSigma, last |-> NoLast],
                         gen.timesteps, gen.context, gen.image, gen.guidance_scale)
        IN  /\ gen.latents = fused.latents
            /\ gen.last = fused.last
            /\ (gen.pc /= "denoising") =>
                  gen.decoded = [i \in 1..(gen.num_devices * gen.batch_size) |->
                                    VaeDecode(fused.latents, i)]

\* the python loop has run two or more steps that changed the latents, and
\* the result is decoded
C13_Witness ==
    /\ pipe.DEBUG
    /\ gen.pc = "decoded"
    /\ gen.num_inference_steps >= 2
    /\ gen.step = gen.num_inference_steps
    /\ gen.last.t = gen.timesteps[gen.step]
    /\ gen.latents /= gen.latents0 * InitNoiseSigma
    /\ gen.last.latents /= gen.latents0 * InitNoiseSigma

\* C14 as stated: prepare_video samples int((end_t - start_t) * output_fps)
\* indices, non-decreasing and evenly spaced, the first one the frame index
\* of start_t, every one in [frame index of start_t, frame index of end_t)
\* and so a valid index below the frame count.
C14_EvenlySpacedInRange ==
    (vid.pc \in {"sampled", "resized", "done"}) =>
        LET idx == vid.sample_idx
            n == Len(idx)
            fps == <<vid.fps_n, FpsDen>>
            first == RInt(RMul(vid.start_t, fps))
            last == RInt(RMul(vid.end_t, fps))
        IN  /\ n = RInt(RMul(RSub(vid.end_t, vid.start_t), <<vid.output_fps, 1>>))
            /\ \A i \in 1..(n - 1) : idx[i] <= idx[i + 1]
            /\ \A i \in 2..(n - 1) : idx[i + 1] - idx[i] = idx[i] - idx[i - 1]
            /\ (n >= 1) => idx[1] = first
            /\ \A i \in 1..n : first <= idx[i] /\ idx[i] < last
            /\ \A i \in 1..n : 0 <= idx[i] /\ idx[i] < vid.frames

\* C14, amended: the indices are int((end_t - start_t) * output_fps) many,
\* the i-th one the evenly spaced point first + i * (last - first) / n
\* truncated to an integer; they are non-decreasing, consecutive gaps differ
\* by at most one, the first index is the frame index of start_t, every index
\* is at least that and below the frame index of end_t unless the two frame
\* indices coincide (then every index equals them), and every index is a
\* valid frame index below the frame count.
C14_TruncatedEvenPoints ==
    (vid.pc \in {"sampled", "resized", "done"}) =>
        LET idx == vid.sample_idx
            n == Len(idx)
            fps == <<vid.fps_n, FpsDen>>
            first == (vid.start_t[1] * fps[1]) \div (vid.start_t[2] * fps[2])
            last == (vid.end_t[1] * fps[1]) \div (vid.end_t[2] * fps[2])
        IN  /\ n = (vid.output_fps * (vid.end_t[1] * vid.start_t[2]
                                        - vid.start_t[1] * vid.end_t[2]))
                     \div (vid.end_t[2] * vid.start_t[2])
            /\ \A i \in 1..n : idx[i] = (first * n + (i - 1) * (last - first)) \div n
            /\ \A i \in 1..(n - 1) : idx[i] <= idx[i + 1]
            /\ \A i \in 2..(n - 1) :
                  (idx[i + 1] - idx[i]) - (idx[i] - idx[i - 1]) \in {-1, 0, 1}
            /\ (n >= 1) => idx[1] = first
            /\ \A i \in 1..n : first <= idx[i] /\ (idx[i] < last \/ first = last)
            /\ \A i \in 1..n : 0 <= idx[i] /\ idx[i] < vid.frames

\* three or more indices were sampled with unequal gaps, the last one being
\* the last frame of the video
C14_Witness ==
    /\ vid.pc = "sampled"
    /\ Len(vid.sample_idx) >= 3
    /\ vid.sample_idx[2] - vid.sample_idx[1] /= vid.sample_idx[3] - vid.sample_idx[2]
    /\ vid.sample_idx[Len(vid.sample_idx)] = vid.frames - 1
    /\ vid.start_f_ind < vid.end_f_ind

\* C15: shared output paths.  Under SpecShared a request without an
\* explicit path writes to and returns the one fixed path of its kind
\* (temporal/movie.mp4, temporal/canny_db.gif, /tmp/ddxk.gif), a request with
\* an explicit path that path; no step waits for another request; and every
\* save replaces whatever the file held by the saving request's own outputs.
C15_SharedFixedPaths ==
    /\ [](\A r \in Requests :
            (req[r].pc \in {"resolved", "rendered", "saved", "returned"}) =>
               /\ req[r].path =
                    (IF req[r].path_arg /= <<>> THEN req[r].path_arg[1]
                     ELSE CASE req[r].kind = "video" -> "temporal/movie.mp4"
                            [] req[r].kind = "gif" -> "temporal/canny_db.gif"
                            [] req[r].kind = "post" -> "/tmp/ddxk.gif")
               /\ (req[r].pc = "returned") =>
                    (req[r].returned = <<req[r].path>> /\ fs[req[r].path] /= <<>>))
    /\ [][\A r \in Requests :
            /\ (req[r].pc = "rendered") => ENABLED Q_Save(r)
            /\ (req[r].pc = "rendered" /\ req'[r].pc = "saved") =>
                 fs' = [fs EXCEPT ![req[r].path] = <<req[r].outputs>>]]_vars

\* two requests of the same kind, neither with an explicit path, are in
\* flight; the first has returned its path after the second saved, and the
\* file at the returned path holds the frames of the second
C15_Witness ==
    \E r \in Requests, q \in Requests :
        /\ r /= q
        /\ req[r].kind = req[q].kind
        /\ req[r].path_arg = <<>> /\ req[q].path_arg = <<>>
        /\ req[r].pc = "returned"
        /\ req[q].pc \in {"saved", "returned"}
        /\ fs[req[r].returned[1]] = <<req[q].outputs>>
        /\ req[q].outputs /= req[r].outputs

\* C16: for every frame size (h >= 1, w >= 1) and every resolution >= 64,
\* the two target dimensions prepare_video computes for the resize are
\* strictly positive multiples of 64, and the call returns frames.
C16_TargetDimsPositive ==
    (vid.resolution >= 64 /\ vid.frame_h >= 1 /\ vid.frame_w >= 1
       /\ (vid.pc \in {"resized", "done"} \/ vid.err = "ResizeError")) =>
        /\ vid.h > 0 /\ vid.h % 64 = 0
        /\ vid.w > 0 /\ vid.w % 64 = 0
        /\ vid.pc /= "error"

====
